---------------------------- MODULE Spec2Model ----------------------------
(***************************************************************************)
(* Model of problems/4A_Watermelon/main.c: main reads one int with scanf,  *)
(* calls can_divide on it, selects "NO" or "YES" in a switch over the      *)
(* returned bool and hands the selected string to printf as the format.    *)
(***************************************************************************)
EXTENDS Integers, Sequences, FiniteSets

\* Largest value of the C type int of `int w` (32-bit two's complement).
INT_MAX == 2147483647

INT_MIN == -INT_MAX - 1

\* Half-width of the window of small input values explored around zero.
MaxW == 5

\* The values an int object can hold that the model explores: a window
\* around the threshold 2 and both ends of the 32-bit range.
Inputs == (-MaxW .. MaxW) \cup {INT_MIN, INT_MIN + 1, INT_MAX - 1, INT_MAX}

\* What can stand on standard input: an integer token, other text, nothing.
StdinContents ==
    [kind : {"int"}, val : Inputs] \cup {[kind |-> "text", val |-> 0], [kind |-> "eof", val |-> 0]}

\* scanf's EOF return value.
EOF == -1

\* Pointer values a char* can hold: the two string literals, or anything else.
PtrNO == "&\"NO\""

PtrYES == "&\"YES\""

PtrWild == "wild"

CharPtrs == {PtrNO, PtrYES, PtrWild}

\* The characters of the string literal a pointer refers to.
StrAt(p) ==
    CASE p = PtrNO -> <<"N", "O">>
      [] p = PtrYES -> <<"Y", "E", "S">>
      [] OTHER -> <<>>

VARIABLES
    pc,          \* the statement main executes next
    w,           \* int w
    scanf_ret,   \* scanf's (discarded) return value; <<>> before the call
    ret,         \* can_divide's return value; <<>> before the call
    str_output,  \* char* str_output
    assigned,    \* whether str_output has been assigned since its declaration
    stdout,      \* the characters written to standard output
    exit_code,   \* the process's exit status; <<>> while it runs
    events,      \* the I/O and evaluation steps taken so far, in order
    prev         \* <<w, stdout>> of the previous execution; <<>> if none

vars == <<pc, w, scanf_ret, ret, str_output, assigned, stdout, exit_code, events, prev>>

-----------------------------------------------------------------------------
(* can_divide *)

\* C's % on ints: the remainder of the division truncated toward zero, so
\* its sign follows the dividend.
CRem(a, b) ==
    LET d == IF b < 0 THEN -b ELSE b
        m == a % d
    IN  IF a < 0 /\ m # 0 THEN m - d ELSE m

\* a - b in 32-bit two's complement, wrapping around below INT_MIN (b > 0).
SubWrap32(a, b) ==
    IF a < INT_MIN + b THEN (a + INT_MAX) + ((INT_MAX - b) + 2) ELSE a - b

\* Mutant: the threshold test written as a subtraction, w - 2 > 0.
can_divide_sub(x) == SubWrap32(x, 2) > 0 /\ CRem(x, 2) = 0

\* Mutant: the threshold test off by one, w >= 2.
can_divide_ge(x) == x >= 2 /\ CRem(x, 2) = 0

\* Mutant: parity tested as w % 2 != 1, with no threshold.
can_divide_parity(x) == CRem(x, 2) # 1

\* Mutant: the threshold test alone.
can_divide_gt(x) == x > 2

\* return w > 2 && w % 2 == 0;
can_divide(x) == x > 2 /\ CRem(x, 2) = 0

\* The integer promotion of a bool in the switch's controlling expression.
BoolToInt(b) == IF b THEN 1 ELSE 0

-----------------------------------------------------------------------------
(* main *)

\* w and str_output are declared without initializers: each starts with an
\* indeterminate value.
Init ==
    /\ pc = "scanf"
    /\ w \in Inputs
    /\ scanf_ret = <<>>
    /\ ret = <<>>
    /\ str_output \in CharPtrs
    /\ assigned = FALSE
    /\ stdout = <<>>
    /\ exit_code = <<>>
    /\ events = <<>>
    /\ prev = <<>>

\* What scanf("%d", &w) returns and stores for a given standard input.
ScanfResult(in, old) ==
    CASE in.kind = "int" -> [r |-> 1, w |-> in.val]
      [] in.kind = "text" -> [r |-> 0, w |-> old]
      [] OTHER -> [r |-> EOF, w |-> old]

\* Mutant: the return value of scanf is checked and a failed parse exits 1.
ScanfChecked ==
    /\ pc = "scanf"
    /\ \E in \in StdinContents :
         LET res == ScanfResult(in, w) IN
         /\ w' = res.w
         /\ scanf_ret' = <<res.r>>
         /\ IF res.r = 1
            THEN pc' = "call" /\ exit_code' = exit_code
            ELSE pc' = "exited" /\ exit_code' = <<1>>
    /\ events' = Append(events, "read")
    /\ UNCHANGED <<ret, str_output, assigned, stdout, prev>>

\* Mutant: scanf is called a second time when the first call assigned nothing.
ScanfRetry ==
    /\ pc = "scanf"
    /\ \E in \in StdinContents :
         LET res == ScanfResult(in, w) IN
         /\ w' = res.w
         /\ scanf_ret' = <<res.r>>
         /\ pc' = IF res.r = 1 \/ scanf_ret # <<>> THEN "call" ELSE "scanf"
    /\ events' = Append(events, "read")
    /\ UNCHANGED <<ret, str_output, assigned, stdout, exit_code, prev>>

\* scanf("%d", &w); the return value is discarded.
Scanf ==
    /\ pc = "scanf"
    /\ \E in \in StdinContents :
         LET res == ScanfResult(in, w) IN
         /\ w' = res.w
         /\ scanf_ret' = <<res.r>>
    /\ pc' = "call"
    /\ events' = Append(events, "read")
    /\ UNCHANGED <<ret, str_output, assigned, stdout, exit_code, prev>>

\* The call can_divide(w) in the switch's controlling expression.
Call ==
    /\ pc = "call"
    /\ ret' = <<can_divide(w)>>
    /\ pc' = "switch"
    /\ events' = Append(events, "eval")
    /\ UNCHANGED <<w, scanf_ret, str_output, assigned, stdout, exit_code, prev>>

\* Mutant: the switch without its `case true` label.
SwitchNoCaseTrue ==
    /\ pc = "switch"
    /\ LET c == BoolToInt(ret[1]) IN
         /\ str_output' = IF c = 0 THEN PtrNO ELSE str_output
         /\ assigned' = (assigned \/ c = 0)
    /\ pc' = "printf"
    /\ UNCHANGED <<w, scanf_ret, ret, stdout, exit_code, events, prev>>

\* Mutant: the switch without its `case false` label.
SwitchNoCaseFalse ==
    /\ pc = "switch"
    /\ LET c == BoolToInt(ret[1]) IN
         /\ str_output' = IF c = 1 THEN PtrYES ELSE str_output
         /\ assigned' = (assigned \/ c = 1)
    /\ pc' = "printf"
    /\ UNCHANGED <<w, scanf_ret, ret, stdout, exit_code, events, prev>>

\* switch (...) { case false: str_output = "NO"; break;
\*                case true:  str_output = "YES"; break; }
\* With no default label, any other value leaves str_output as it was.
Switch ==
    /\ pc = "switch"
    /\ LET c == BoolToInt(ret[1]) IN
         /\ str_output' = CASE c = 0 -> PtrNO
                            [] c = 1 -> PtrYES
                            [] OTHER -> str_output
         /\ assigned' = (assigned \/ c \in {0, 1})
    /\ pc' = "printf"
    /\ UNCHANGED <<w, scanf_ret, ret, stdout, exit_code, events, prev>>

\* Mutant: puts(str_output), which appends a newline.
PrintfOutcomesPuts(p) ==
    IF p \in {PtrNO, PtrYES}
    THEN {[text |-> Append(StrAt(p), "\n"), crash |-> FALSE]}
    ELSE [text : {<<>>, StrAt(PtrNO), StrAt(PtrYES), <<"?">>}, crash : BOOLEAN]

\* What printf(p) can do: a format without conversion specifications is
\* written as it is; a pointer to no string is undefined behaviour, which may
\* write nothing, write either literal, write other bytes, or crash.
PrintfOutcomes(p) ==
    IF p \in {PtrNO, PtrYES}
    THEN {[text |-> StrAt(p), crash |-> FALSE]}
    ELSE [text : {<<>>, StrAt(PtrNO), StrAt(PtrYES), <<"?">>}, crash : BOOLEAN]

\* printf(str_output);
Printf ==
    /\ pc = "printf"
    /\ \E o \in PrintfOutcomes(str_output) :
         /\ stdout' = stdout \o o.text
         /\ IF o.crash
            THEN pc' = "exited" /\ exit_code' = <<139>>
            ELSE pc' = "return" /\ exit_code' = exit_code
    /\ events' = Append(events, "write")
    /\ UNCHANGED <<w, scanf_ret, ret, str_output, assigned, prev>>

\* Mutant: main ends with return 1.
ReturnOne ==
    /\ pc = "return"
    /\ pc' = "exited"
    /\ exit_code' = <<1>>
    /\ UNCHANGED <<w, scanf_ret, ret, str_output, assigned, stdout, events, prev>>

\* Mutant: main never reaches its closing brace.
ReturnSpin ==
    /\ pc = "return"
    /\ pc' = "return"
    /\ assigned' = ~assigned
    /\ UNCHANGED <<w, scanf_ret, ret, str_output, stdout, exit_code, events, prev>>

\* Reaching the closing brace of main returns 0.
Return ==
    /\ pc = "return"
    /\ pc' = "exited"
    /\ exit_code' = <<0>>
    /\ UNCHANGED <<w, scanf_ret, ret, str_output, assigned, stdout, events, prev>>

\* The program is run again: a new process starts at main with fresh
\* indeterminate locals; the finished run's w and output are remembered.
Exec ==
    /\ pc = "exited"
    /\ prev' = <<w, stdout>>
    /\ pc' = "scanf"
    /\ w' \in Inputs
    /\ str_output' \in CharPtrs
    /\ scanf_ret' = <<>>
    /\ ret' = <<>>
    /\ assigned' = FALSE
    /\ stdout' = <<>>
    /\ exit_code' = <<>>
    /\ events' = <<>>

Next == Scanf \/ Call \/ Switch \/ Printf \/ Return

\* One execution of the program.
Spec == Init /\ [][Next]_vars

\* One execution; a running process keeps being scheduled.
FairSpec == Spec /\ WF_vars(Next)

NextRuns == Next \/ Exec

\* Executions of the program one after another.
SpecRuns == Init /\ [][NextRuns]_vars

-----------------------------------------------------------------------------
(* Properties *)

YES == StrAt(PtrYES)

NO == StrAt(PtrNO)

\* x is even and greater than 2, in the integers.
EvenAboveTwo(x) == x > 2 /\ x % 2 = 0

\* x is the sum of two positive even integers.
Splittable(x) ==
    \E a \in 1 .. x : \E b \in 1 .. x : a % 2 = 0 /\ b % 2 = 0 /\ a + b = x

ScanFailed == scanf_ret \in {<<0>>, <<EOF>>}

\* C1: when scanf read an integer w, can_divide(w) returned true exactly if
\* w > 2 and w mod 2 = 0, and the finished program has printed "YES" in that
\* case and "NO" otherwise.
C1_YesIffEvenAboveTwo ==
    scanf_ret = <<1>> =>
        /\ ret # <<>> => (ret[1] <=> EvenAboveTwo(w))
        /\ pc = "exited" => stdout = (IF EvenAboveTwo(w) THEN YES ELSE NO)

C1_Witness ==
    pc = "exited" /\ scanf_ret = <<1>> /\ w = 4 /\ ret = <<TRUE>> /\ stdout = YES

\* C2: can_divide(w) is true exactly if w is the sum of two positive even
\* integers (checked for every explored w up to MaxW, INT_MIN included).
C2_TrueIffSplittable ==
    (ret # <<>> /\ w <= MaxW) => (ret[1] <=> Splittable(w))

C2_Witness == ret = <<TRUE>> /\ w = 4 /\ Splittable(w)

\* C3: standard output is empty until printf runs and from then on holds
\* exactly the characters YES or exactly the characters NO, written by a
\* single write with nothing before or after them.
C3_OutputExactlyYesOrNo ==
    /\ pc \in {"scanf", "call", "switch", "printf"} => stdout = <<>>
    /\ pc \in {"return", "exited"} =>
         /\ stdout \in {YES, NO}
         /\ Cardinality({i \in DOMAIN events : events[i] = "write"}) = 1

C3_Witness == pc = "exited" /\ stdout = <<"N", "O">> /\ events[Len(events)] = "write"

\* C4: for every w <= 2 can_divide returns false and the program prints
\* "NO", whatever the parity or sign of w; 4 prints "YES" and no smaller
\* value does.
C4_AtMostTwoIsNo ==
    /\ (ret # <<>> /\ w <= 2) => ret = <<FALSE>>
    /\ (pc = "exited" /\ w <= 2) => stdout = NO
    /\ (pc = "exited" /\ stdout = YES) => w >= 4
    /\ (pc = "exited" /\ w = 4) => stdout = YES

C4_Witness == pc = "exited" /\ w = -4 /\ ret = <<FALSE>> /\ stdout = NO

\* C5: every execution reaches the end of main, and the only exit status
\* the process ever has is 0.
C5_TerminatesWithZero ==
    /\ <>(pc = "exited")
    /\ [](exit_code \in {<<>>, <<0>>})
    /\ [](pc = "exited" <=> exit_code = <<0>>)

C5_Witness == pc = "exited" /\ exit_code = <<0>> /\ events = <<"read", "eval", "write">>

\* C6: two executions whose w holds the same value print the same string,
\* whatever the indeterminate initial values of their locals were.
C6_SameInputSameOutput ==
    (prev # <<>> /\ pc = "exited" /\ prev[1] = w) => prev[2] = stdout

C6_Witness ==
    prev # <<>> /\ pc = "exited" /\ prev[1] = w /\ w = 4 /\ prev[2] = YES /\ stdout = YES

\* C7: when scanf assigns nothing, w keeps the value it had, execution goes
\* on to can_divide with that value, and the program prints "YES" or "NO"
\* accordingly and exits with status 0: there is no error outcome.
C7_ParseFailureIsNotAnError ==
    /\ [][(pc = "scanf" /\ scanf_ret' \in {<<0>>, <<EOF>>}) => (w' = w /\ pc' = "call")]_vars
    /\ [](ScanFailed =>
            /\ exit_code \in {<<>>, <<0>>}
            /\ ret # <<>> => (ret[1] <=> EvenAboveTwo(w))
            /\ pc = "exited" => (exit_code = <<0>> /\ stdout = (IF EvenAboveTwo(w) THEN YES ELSE NO)))

C7_Witness ==
    pc = "exited" /\ scanf_ret = <<0>> /\ w = 4 /\ stdout = YES /\ exit_code = <<0>>

\* The steps an execution has taken when it stands at a given statement.
EventsAt(p) ==
    CASE p = "scanf" -> <<>>
      [] p = "call" -> <<"read">>
      [] p \in {"switch", "printf"} -> <<"read", "eval">>
      [] OTHER -> <<"read", "eval", "write">>

\* C8: an execution reads standard input once, then evaluates can_divide
\* once on the value in w, then writes once, in that order, and w does not
\* change after the read.
C8_ReadEvalWriteOnce ==
    /\ [](events = EventsAt(pc))
    /\ [][pc # "scanf" => w' = w]_vars
    /\ [][pc = "call" => ret' = <<can_divide(w)>>]_vars

C8_Witness == pc = "exited" /\ events = <<"read", "eval", "write">> /\ scanf_ret = <<1>>

\* C9: whenever printf is about to run, str_output has been assigned, and it
\* points to "YES" if can_divide returned true and to "NO" if it returned
\* false; can_divide's value promotes to 0 or 1 only.
C9_AssignedBeforePrintf ==
    /\ ret # <<>> => BoolToInt(ret[1]) \in {0, 1}
    /\ pc \in {"printf", "return", "exited"} =>
         /\ assigned
         /\ str_output = (IF ret[1] THEN PtrYES ELSE PtrNO)

C9_Witness == pc = "printf" /\ assigned /\ ret = <<FALSE>> /\ str_output = PtrNO

\* C10: over the 32-bit range, both ends included, C's truncating w % 2
\* stays within {-1, 0, 1} (-1 for negative odd w), and w > 2 && w % 2 == 0
\* equals the mathematical "w > 2 and 2 divides w"; INT_MIN and INT_MAX give
\* false.
C10_Int32RangeAgrees ==
    ret # <<>> =>
        /\ w \in INT_MIN .. INT_MAX
        /\ CRem(w, 2) \in {-1, 0, 1}
        /\ (w < 0 /\ w % 2 = 1) => CRem(w, 2) = -1
        /\ (CRem(w, 2) = 0) <=> (w % 2 = 0)
        /\ ret[1] <=> EvenAboveTwo(w)
        /\ w \in {INT_MIN, INT_MAX} => ret = <<FALSE>>

C10_Witness == ret = <<FALSE>> /\ w = INT_MIN /\ CRem(w + 1, 2) = -1

=============================================================================
